---- MODULE Spec2Model ----
(***************************************************************************)
(* aidp-video-forge: the FFmpeg command compiler of src/src/gpu_pipeline.py *)
(* (GPUPipeline.build_gpu_command and GPUPipeline._build_filter_chain),    *)
(* its capability probe, the AIDP client of src/src/aidp_client.py and the *)
(* commands of src/src/forge.py that drive it.                             *)
(*                                                                         *)
(* A preset is a Python dict: here a function whose DOMAIN is the set of   *)
(* keys the dict holds, so "key absent" and "key present with a falsy      *)
(* value" are different presets.  The eq dict keeps its insertion order    *)
(* (a sequence of <<key, value>> pairs), because the code iterates it.     *)
(* Strings are built as the code builds them (f-strings, str.join).        *)
(***************************************************************************)
EXTENDS Integers, Sequences, FiniteSets, TLC

VARIABLES
    has_nvenc,   \* self.has_nvenc
    has_cuda,    \* self.has_cuda
    preset,      \* the preset argument of the call
    lut_path,    \* the lut_path argument of the call (None when not given)
    filters,     \* the list `filters` of _build_filter_chain before the join
    cmd,         \* the list build_gpu_command returns
    prior,       \* the arguments and the result of the call before this one
    pc,          \* "ready": arguments chosen; "built": one call returned;
                 \* "rebuilt": a second call returned
    probe,       \* GPUPipeline._check_gpu_support: its position, the attributes
                 \* it has assigned and what the two ffmpeg runs did
    session,     \* AIDPClient._session, and every session the client created
    requests,    \* the requests sent to the AIDP network, in order, each
                 \* with what came back
    now,         \* time.time(), in seconds
    upload,      \* the call of AIDPClient.upload_file in progress
    submit,      \* the call of AIDPClient.submit_job in progress
    download,    \* the call of AIDPClient.download_file in progress
    wait,        \* the call of AIDPClient.wait_for_job in progress: its
                 \* arguments, locals, callback calls and outcome
    flow         \* the command or workflow in progress: its position, the
                 \* jobs it submitted and how it ended

\* the variables of the AIDP client and of the commands that drive it
remote_vars ==
    <<session, requests, now, upload, submit, download, wait, flow>>

vars == <<has_nvenc, has_cuda, preset, lut_path, filters, cmd, prior, pc,
          probe, session, requests, now, upload, submit, download, wait, flow>>

----------------------------------------------------------------------------
(* Bounds of the model *)

\* the largest number of keys an eq dict of the model holds
MaxEqKeys == 2

----------------------------------------------------------------------------
(* Python values *)

\* Optional[str] = None
None == "<None>"

\* the dict {}
EmptyDict == [k \in {} |-> 0]

Digits == <<"0", "1", "2", "3", "4", "5", "6", "7", "8", "9">>

\* str(n) and the {n} of an f-string, for a natural number
RECURSIVE Str(_)
Str(n) == IF n < 10 THEN Digits[n + 1]
          ELSE Str(n \div 10) \o Digits[(n % 10) + 1]

\* sep.join(parts)
RECURSIVE Join(_, _)
Join(sep, parts) ==
    IF parts = <<>> THEN ""
    ELSE IF Len(parts) = 1 THEN parts[1]
    ELSE parts[1] \o sep \o Join(sep, Tail(parts))

\* preset.get(key, default)
Get(p, key, default) == IF key \in DOMAIN p THEN p[key] ELSE default

BoolKeys == {"hwaccel", "use_cuda", "deinterlace", "tonemap", "faststart"}
NumKeys == {"fps", "grain", "letterbox", "vignette", "cq", "bframes", "crf",
            "audio_sample_rate"}
SeqKeys == {"eq", "scale"}

\* bool(value) for the value a preset holds under `key`
IsTruthy(key, value) ==
    CASE key \in BoolKeys -> value
      [] key \in NumKeys  -> value # 0
      [] key \in SeqKeys  -> Len(value) > 0
      [] OTHER            -> value # ""

\* bool(preset.get(key)): the key is present and its value is truthy
Truthy(p, key) == key \in DOMAIN p /\ IsTruthy(key, p[key])

----------------------------------------------------------------------------
(* GPUPipeline._build_filter_chain *)

\* one element of the list `filters`: the string appended (text) and the
\* FFmpeg filter name it starts with (name)
Stage(name, text) == [name |-> name, text |-> text]

\* a slip of UseCuda: the preset's use_cuda is not consulted
UseCuda_IgnoresPreset(p) == has_cuda

\* use_cuda = self.has_cuda and preset.get("use_cuda", True)
UseCuda(p) == has_cuda /\ Get(p, "use_cuda", TRUE)

\* a slip of UploadStage: the upload is emitted whenever CUDA filters are used
UploadStage_Always(p) ==
    IF UseCuda(p)
    THEN <<Stage("hwupload_cuda", "hwupload_cuda")>>
    ELSE <<>>

\* Hardware upload if not already on GPU
UploadStage(p) ==
    IF UseCuda(p) /\ ~Get(p, "hwaccel", TRUE)
    THEN <<Stage("hwupload_cuda", "hwupload_cuda")>>
    ELSE <<>>

\* Scaling
ScaleStage(p) ==
    IF "scale" \in DOMAIN p
    THEN LET w == p["scale"][1]
             h == p["scale"][2]
         IN  IF UseCuda(p)
             THEN <<Stage("scale_cuda", "scale_cuda=" \o Str(w) \o ":" \o Str(h))>>
             ELSE <<Stage("scale", "scale=" \o Str(w) \o ":" \o Str(h))>>
    ELSE <<>>

\* Deinterlacing
DeinterlaceStage(p) ==
    IF Truthy(p, "deinterlace")
    THEN IF UseCuda(p)
         THEN <<Stage("yadif_cuda", "yadif_cuda=0:-1:0")>>
         ELSE <<Stage("yadif", "yadif=0:-1:0")>>
    ELSE <<>>

\* HDR to SDR tone mapping
TonemapStage(p) ==
    IF Truthy(p, "tonemap")
    THEN IF UseCuda(p)
         THEN <<Stage("tonemap_cuda", "tonemap_cuda=tonemap=hable:peak=100")>>
         ELSE <<Stage("zscale",
                      "zscale=t=linear:npl=100,tonemap=hable,zscale=t=bt709")>>
    ELSE <<>>

\* Frame rate conversion
FpsStage(p) ==
    IF "fps" \in DOMAIN p
    THEN <<Stage("fps", "fps=" \o Str(p["fps"]))>>
    ELSE <<>>

\* a slip of NeedsCpuFilters: the sharpen filter is forgotten
NeedsCpuFilters_NoUnsharp(p, lut) ==
    (lut # None /\ lut # "") \/ Truthy(p, "eq")

\* needs_cpu_filters = lut_path or preset.get("eq") or preset.get("unsharp")
NeedsCpuFilters(p, lut) ==
    (lut # None /\ lut # "") \/ Truthy(p, "eq") \/ Truthy(p, "unsharp")

\* Download from GPU for CPU-based filters
DownloadStage(p, lut) ==
    IF UseCuda(p) /\ NeedsCpuFilters(p, lut)
    THEN <<Stage("hwdownload", "hwdownload,format=nv12")>>
    ELSE <<>>

\* Color grading with LUT
LutStage(lut) ==
    IF lut # None /\ lut # ""
    THEN <<Stage("lut3d", "lut3d='" \o lut \o "'")>>
    ELSE <<>>

\* the f"{k}={v}" of each item of eq, in the dict's iteration order
EqItems(eq) == [i \in 1..Len(eq) |-> eq[i][1] \o "=" \o Str(eq[i][2])]

\* Color correction (eq filter)
EqStage(p) ==
    IF Truthy(p, "eq")
    THEN <<Stage("eq", "eq=" \o Join(",", EqItems(p["eq"])))>>
    ELSE <<>>

\* Sharpening
UnsharpStage(p) ==
    IF Truthy(p, "unsharp")
    THEN <<Stage("unsharp", "unsharp=" \o p["unsharp"])>>
    ELSE <<>>

\* a slip of GrainStage: an absent grain is given a default intensity
GrainStage_Default(p) ==
    IF Get(p, "grain", 8) # 0
    THEN <<Stage("noise", "noise=c0s=" \o Str(Get(p, "grain", 8)) \o ":c0f=t+u")>>
    ELSE <<>>

\* Film grain
GrainStage(p) ==
    IF Truthy(p, "grain")
    THEN <<Stage("noise", "noise=c0s=" \o Str(p["grain"]) \o ":c0f=t+u")>>
    ELSE <<>>

\* Letterbox
LetterboxStage(p) ==
    IF Truthy(p, "letterbox")
    THEN <<Stage("pad", "pad=iw:iw/" \o Str(p["letterbox"])
                          \o ":(ow-iw)/2:(oh-ih)/2:black")>>
    ELSE <<>>

\* Vignette
VignetteStage(p) ==
    IF Truthy(p, "vignette")
    THEN <<Stage("vignette", "vignette=angle=" \o Str(p["vignette"]))>>
    ELSE <<>>

\* a slip of FilterList: the grain is appended before the sharpening
FilterList_GrainBeforeUnsharp(p, lut) ==
    UploadStage(p) \o ScaleStage(p) \o DeinterlaceStage(p) \o TonemapStage(p)
    \o FpsStage(p) \o DownloadStage(p, lut) \o LutStage(lut) \o EqStage(p)
    \o GrainStage(p) \o UnsharpStage(p) \o LetterboxStage(p) \o VignetteStage(p)

\* the list `filters` when _build_filter_chain reaches its return
FilterList(p, lut) ==
    UploadStage(p) \o ScaleStage(p) \o DeinterlaceStage(p) \o TonemapStage(p)
    \o FpsStage(p) \o DownloadStage(p, lut) \o LutStage(lut) \o EqStage(p)
    \o UnsharpStage(p) \o GrainStage(p) \o LetterboxStage(p) \o VignetteStage(p)

\* return ",".join(filters) if filters else ""
build_filter_chain(p, lut) ==
    LET fl == FilterList(p, lut)
    IN  IF fl # <<>> THEN Join(",", [i \in 1..Len(fl) |-> fl[i].text]) ELSE ""

----------------------------------------------------------------------------
(* GPUPipeline.build_gpu_command *)

\* self.ffmpeg_path and the paths the callers pass
ffmpeg_path == "ffmpeg"
input_path == "input.mp4"
output_path == "output.mp4"

\* NVENC presets (quality/speed tradeoff)
NVENC_PRESETS ==
    [fastest |-> "p1", fast |-> "p2", medium |-> "p4", slow |-> "p5",
     quality |-> "p6", best |-> "p7"]

\* the encoder names of the model for which `"nvenc" in encoder` is true
NvencNames == {"h264_nvenc", "hevc_nvenc"}

\* GPU hardware acceleration for decoding
HwaccelArgs(p) ==
    IF Get(p, "hwaccel", TRUE) /\ has_nvenc
    THEN <<"-hwaccel", "cuda", "-hwaccel_output_format", "cuda">>
    ELSE <<>>

\* filters = self._build_filter_chain(preset, lut_path); if filters: -vf
FilterArgs(p, lut) ==
    LET fs == build_filter_chain(p, lut)
    IN  IF fs # "" THEN <<"-vf", fs>> ELSE <<>>

\* encoder = preset.get("encoder", "h264_nvenc" if self.has_nvenc else "libx264")
Encoder(p) ==
    Get(p, "encoder", IF has_nvenc THEN "h264_nvenc" ELSE "libx264")

\* the options after -c:v: NVENC-specific ones, or the CPU fallback's
EncoderOptions(p) ==
    IF Encoder(p) \in NvencNames
    THEN LET speed == Get(p, "speed", "medium")
             nvenc_preset == IF speed \in DOMAIN NVENC_PRESETS
                             THEN NVENC_PRESETS[speed] ELSE "p4"
         IN  <<"-preset", nvenc_preset,
               "-rc", Get(p, "rate_control", "vbr"),
               "-cq", Str(Get(p, "cq", 23)),
               "-b:v", Get(p, "bitrate", "0"),
               "-maxrate", Get(p, "maxrate", "50M"),
               "-bufsize", Get(p, "bufsize", "100M")>>
             \o (IF Truthy(p, "tune") THEN <<"-tune", p["tune"]>> ELSE <<>>)
             \o <<"-bf", Str(Get(p, "bframes", 3))>>
    ELSE <<"-preset", Get(p, "cpu_preset", "medium"),
           "-crf", Str(Get(p, "crf", 23))>>

\* Video encoding
VideoArgs(p) == <<"-c:v", Encoder(p)>> \o EncoderOptions(p)

\* a slip of AudioArgs: a bitrate the preset sets is passed on with copy too
AudioArgs_BitrateOnCopy(p) ==
    LET audio_codec == Get(p, "audio_codec", "aac")
    IN  IF audio_codec = "copy" /\ "audio_bitrate" \notin DOMAIN p
        THEN <<"-c:a", "copy">>
        ELSE <<"-c:a", audio_codec,
               "-b:a", Get(p, "audio_bitrate", "128k"),
               "-ar", Str(Get(p, "audio_sample_rate", 48000))>>

\* Audio encoding
AudioArgs(p) ==
    LET audio_codec == Get(p, "audio_codec", "aac")
    IN  IF audio_codec = "copy"
        THEN <<"-c:a", "copy">>
        ELSE <<"-c:a", audio_codec,
               "-b:a", Get(p, "audio_bitrate", "128k"),
               "-ar", Str(Get(p, "audio_sample_rate", 48000))>>

\* Output options
OutputArgs(p) ==
    (IF Get(p, "faststart", TRUE) THEN <<"-movflags", "+faststart">> ELSE <<>>)
    \o <<output_path>>

\* the list build_gpu_command returns
build_gpu_command(p, lut) ==
    <<ffmpeg_path, "-hide_banner", "-y">> \o HwaccelArgs(p)
    \o <<"-i", input_path>> \o FilterArgs(p, lut)
    \o VideoArgs(p) \o AudioArgs(p) \o OutputArgs(p)

----------------------------------------------------------------------------
(* The arguments the model calls build_gpu_command with *)

\* a dict that holds `key` with one of `values`, or does not hold it
Opt(key, values) == {EmptyDict} \cup {key :> v : v \in values}

\* the keys an eq dict may hold (presets.py), each with the value it carries
EqKeyOrder == <<"brightness", "contrast", "saturation", "gamma">>
EqPairs == {<<EqKeyOrder[i], i>> : i \in 1..MaxEqKeys}

\* every eq dict of at most MaxEqKeys distinct keys, in every insertion order
EqDicts ==
    {d \in UNION {[1..n -> EqPairs] : n \in 0..MaxEqKeys} :
        \A i, j \in 1..Len(d) : i # j => d[i][1] # d[j][1]}

\* the lut_path arguments: not given, the empty string, or a .cube file
LutPaths == {None, "", "test.cube"}

\* the flags that decide where a frame is: on the accelerator or not
PlacementDicts ==
    {a @@ b : a \in Opt("hwaccel", BOOLEAN), b \in Opt("use_cuda", BOOLEAN)}

\* the filters that have a CUDA variant, and the frame rate
HeadDicts ==
    {a @@ b @@ c @@ d :
        a \in Opt("scale", {<<1920, 1080>>}),
        b \in Opt("deinterlace", BOOLEAN),
        c \in Opt("tonemap", {TRUE}),
        d \in Opt("fps", {30})}

\* the filters that run on the CPU
TailDicts ==
    {a @@ b @@ c @@ d @@ e :
        a \in Opt("eq", EqDicts),
        b \in Opt("unsharp", {"5:5:0.5:5:5:0.5"}),
        c \in Opt("grain", {0, 8}),
        d \in Opt("letterbox", {2}),
        e \in Opt("vignette", {4})}

\* the encoder and audio settings
CodecDicts ==
    {a @@ b @@ c @@ d :
        a \in Opt("encoder", {"h264_nvenc", "hevc_nvenc", "libx264"}),
        b \in Opt("audio_codec", {"copy", "aac"}),
        c \in Opt("audio_bitrate", {"192k"}),
        d \in Opt("audio_sample_rate", {44100})}

\* the encoder tuning of a preset
TuningDicts ==
    {a @@ b @@ c :
        a \in Opt("speed", {"quality", "turbo"}),
        b \in Opt("tune", {"", "hq"}),
        c \in Opt("faststart", BOOLEAN)}

\* presets that vary the filter fields
ChainPresets ==
    {a @@ b @@ c @@ d :
        a \in PlacementDicts, b \in HeadDicts, c \in TailDicts,
        d \in Opt("encoder", {"h264_nvenc"})}

\* presets that vary the encoder and audio fields
CodecPresets ==
    {a @@ b @@ c @@ d :
        a \in PlacementDicts,
        b \in Opt("scale", {<<1920, 1080>>}),
        c \in CodecDicts,
        d \in TuningDicts}

\* presets that vary what a second call could see differently
RepeatPresets ==
    {a @@ b @@ c @@ d @@ e @@ f :
        a \in PlacementDicts,
        b \in Opt("scale", {<<1920, 1080>>}),
        c \in Opt("eq", EqDicts),
        d \in Opt("unsharp", {"5:5:0.5:5:5:0.5"}),
        e \in Opt("encoder", {"h264_nvenc", "libx264"}),
        f \in Opt("audio_codec", {"copy", "aac"})}

\* p == q in Python: the same keys with equal values; two dicts are equal
\* when they hold the same items, whatever the insertion order
DictItems(d) == {d[i] : i \in 1..Len(d)}
DeepEqual(p, q) ==
    /\ DOMAIN p = DOMAIN q
    /\ \A k \in DOMAIN p :
        IF k = "eq" THEN DictItems(p[k]) = DictItems(q[k]) ELSE p[k] = q[k]

\* the presets equal to p that a caller can build
EqualPresets(p) ==
    IF "eq" \in DOMAIN p
    THEN {[p EXCEPT !["eq"] = d] : d \in {e \in EqDicts : DictItems(e) = DictItems(p["eq"])}}
    ELSE {p}

----------------------------------------------------------------------------
(* The state machine: a GPUPipeline whose capability flags are set, one     *)
(* call of build_gpu_command, and a second call with an equal preset        *)

NoCall == [called |-> FALSE, preset |-> EmptyDict, lut_path |-> None,
           filters |-> <<>>, cmd |-> <<>>]

\* _check_gpu_support has returned; what its two runs did is not recorded
ProbeReturned ==
    [pc |-> "probed", defined |-> {"has_nvenc", "has_cuda"}, runs |-> <<>>]

\* no AIDPClient exists: nothing was sent and no command runs
NoSession == [current |-> None, opened |-> 0, closed |-> 0]
NoUpload == [pc |-> "idle"]
NoSubmit == [pc |-> "idle"]
NoDownload == [pc |-> "idle"]
NoWait == [pc |-> "idle"]
NoFlow == [kind |-> None, pc |-> "idle"]
RemoteIdle ==
    /\ session = NoSession
    /\ requests = <<>>
    /\ now = 0
    /\ upload = NoUpload
    /\ submit = NoSubmit
    /\ download = NoDownload
    /\ wait = NoWait
    /\ flow = NoFlow

\* the pipeline after __init__: the two capability flags are set
Init ==
    /\ has_nvenc \in BOOLEAN
    /\ has_cuda \in BOOLEAN
    /\ preset = EmptyDict
    /\ lut_path = None
    /\ filters = <<>>
    /\ cmd = <<>>
    /\ prior = NoCall
    /\ pc = "ready"
    /\ probe = ProbeReturned
    /\ RemoteIdle

\* cmd = pipeline.build_gpu_command(input_path, output_path, p, lut)
BuildGpuCommand(p, lut) ==
    /\ pc = "ready"
    /\ preset' = p
    /\ lut_path' = lut
    /\ filters' = FilterList(p, lut)
    /\ cmd' = build_gpu_command(p, lut)
    /\ pc' = "built"
    /\ UNCHANGED <<has_nvenc, has_cuda, prior, probe, remote_vars>>

\* the same call again, with a preset equal to the first one
BuildGpuCommandAgain ==
    /\ pc = "built"
    /\ \E q \in EqualPresets(preset) :
        /\ prior' = [called |-> TRUE, preset |-> preset, lut_path |-> lut_path,
                     filters |-> filters, cmd |-> cmd]
        /\ preset' = q
        /\ filters' = FilterList(q, lut_path)
        /\ cmd' = build_gpu_command(q, lut_path)
    /\ pc' = "rebuilt"
    /\ UNCHANGED <<has_nvenc, has_cuda, lut_path, probe, remote_vars>>

\* a call with a preset that varies the filter fields
BuildChain ==
    /\ pc = "ready"
    /\ \E p \in ChainPresets, lut \in LutPaths : BuildGpuCommand(p, lut)

\* a call with a preset that varies the encoder and audio fields
BuildCodec ==
    /\ pc = "ready"
    /\ \E p \in CodecPresets, lut \in LutPaths : BuildGpuCommand(p, lut)

\* a call with a preset that a second, equal preset can differ from
BuildFirst ==
    /\ pc = "ready"
    /\ \E p \in RepeatPresets, lut \in LutPaths : BuildGpuCommand(p, lut)

Next == BuildChain

NextCodec == BuildCodec

NextRepeat == BuildFirst \/ BuildGpuCommandAgain

\* one call, over the filter fields
Spec == Init /\ [][Next]_vars

\* one call, over the encoder and audio fields
SpecCodec == Init /\ [][NextCodec]_vars

\* two calls with equal arguments
SpecRepeat == Init /\ [][NextRepeat]_vars

----------------------------------------------------------------------------
(* Vocabulary of the properties: the FilterStage kinds of the design        *)

\* the stage kind each FFmpeg filter name stands for
StageKind ==
    [hwupload_cuda |-> "Upload", scale_cuda |-> "Scale", scale |-> "Scale",
     yadif_cuda |-> "Deinterlace", yadif |-> "Deinterlace",
     tonemap_cuda |-> "ToneMap", zscale |-> "ToneMap",
     fps |-> "FrameRateConvert", hwdownload |-> "Download",
     lut3d |-> "ColorLUT", eq |-> "ColorCorrect", unsharp |-> "Sharpen",
     noise |-> "Grain", pad |-> "Letterbox", vignette |-> "Vignette"]

\* the fixed order of the stage kinds
KindOrder ==
    <<"Upload", "Scale", "Deinterlace", "ToneMap", "FrameRateConvert",
      "Download", "ColorLUT", "ColorCorrect", "Sharpen", "Grain",
      "Letterbox", "Vignette">>

Rank(kind) == CHOOSE i \in 1..Len(KindOrder) : KindOrder[i] = kind

\* the stages of the CPU-only tail
CpuTailKinds ==
    {"ColorLUT", "ColorCorrect", "Sharpen", "Grain", "Letterbox", "Vignette"}

\* the filters that take frames held on the accelerator
CudaFilterNames == {"scale_cuda", "yadif_cuda", "tonemap_cuda"}

Kinds(fl) == [i \in 1..Len(fl) |-> StageKind[fl[i].name]]
Names(fl) == [i \in 1..Len(fl) |-> fl[i].name]
Texts(fl) == [i \in 1..Len(fl) |-> fl[i].text]
Positions(fl, kind) == {i \in 1..Len(fl) : Kinds(fl)[i] = kind}
HasKind(fl, kind) == Positions(fl, kind) # {}

\* the command holds argument a, and argument a followed by b
HasArg(c, a) == \E i \in 1..Len(c) : c[i] = a
HasArgPair(c, a, b) == \E i \in 1..(Len(c) - 1) : c[i] = a /\ c[i + 1] = b

\* a call has returned
Called == pc # "ready"

\* accelerated filters are in use: available, and not disabled by the preset
AccelFiltersInUse == has_cuda /\ Get(preset, "use_cuda", TRUE)

\* a lut_path names a LUT file
LutGiven == lut_path # None /\ lut_path # ""

\* the preset field each stage kind is requested by
KindField ==
    [Scale |-> "scale", Deinterlace |-> "deinterlace", ToneMap |-> "tonemap",
     FrameRateConvert |-> "fps", ColorCorrect |-> "eq", Sharpen |-> "unsharp",
     Grain |-> "grain", Letterbox |-> "letterbox", Vignette |-> "vignette"]

\* the stage is requested: its field holds a value that asks for it
Requested(kind) ==
    IF kind = "ColorLUT" THEN LutGiven
    ELSE IF kind \in {"Scale", "FrameRateConvert"}
         THEN KindField[kind] \in DOMAIN preset
         ELSE Truthy(preset, KindField[kind])

\* the preset of the two scenarios of the design
ScenarioPreset ==
    ("encoder" :> "h264_nvenc") @@ ("scale" :> <<1920, 1080>>)
    @@ ("deinterlace" :> TRUE)

----------------------------------------------------------------------------
(* C1: when accelerated filters are in use and a LUT, eq or unsharp is      *)
(* requested, the chain holds exactly one Download stage, it sits           *)
(* immediately before the first CPU-only stage, and no Upload follows it.   *)
C1_OneDownloadBeforeFirstCpuStage ==
    (/\ Called
     /\ AccelFiltersInUse
     /\ (Requested("ColorLUT") \/ Requested("ColorCorrect") \/ Requested("Sharpen")))
    => LET ks == Kinds(filters)
           down == Positions(filters, "Download")
       IN  /\ Cardinality(down) = 1
           /\ \A d \in down :
               /\ d < Len(ks)
               /\ ks[d + 1] \in CpuTailKinds
               /\ \A j \in 1..d : ks[j] \notin CpuTailKinds
               /\ \A j \in (d + 1)..Len(ks) : ks[j] # "Upload"

\* a chain that uploads, runs accelerated stages, downloads once and then
\* sharpens, with no LUT and no eq
C1_Witness ==
    /\ pc = "built"
    /\ AccelFiltersInUse
    /\ ~LutGiven
    /\ ~Requested("ColorCorrect")
    /\ Names(filters) = <<"hwupload_cuda", "scale_cuda", "hwdownload", "unsharp">>

----------------------------------------------------------------------------
(* C2, as stated: the scenario preset {encoder: h264_nvenc, scale:          *)
(* (1920,1080), deinterlace: true} with both capability flags true          *)
(* compiles to exactly [Upload, accelerated Scale 1920x1080, accelerated    *)
(* Deinterlace].                                                            *)
C2_AsStated ==
    (Called /\ has_nvenc /\ has_cuda /\ preset = ScenarioPreset /\ lut_path = None)
    => Texts(filters) = <<"hwupload_cuda", "scale_cuda=1920:1080", "yadif_cuda=0:-1:0">>

(* C2, amended: with both capability flags true the scenario preset         *)
(* compiles to exactly [accelerated Scale 1920x1080, accelerated            *)
(* Deinterlace] with no Upload stage, the command carrying the accelerated  *)
(* decode flags instead (hwaccel defaults to true); the same preset with    *)
(* hwaccel set to false compiles to exactly [Upload, accelerated Scale      *)
(* 1920x1080, accelerated Deinterlace].                                     *)
C2_ScenarioChain ==
    (Called /\ has_nvenc /\ has_cuda /\ lut_path = None)
    => /\ preset = ScenarioPreset
          => /\ Texts(filters) = <<"scale_cuda=1920:1080", "yadif_cuda=0:-1:0">>
             /\ HasArgPair(cmd, "-hwaccel", "cuda")
             /\ HasArgPair(cmd, "-hwaccel_output_format", "cuda")
       /\ preset = ScenarioPreset @@ ("hwaccel" :> FALSE)
          => /\ Texts(filters) = <<"hwupload_cuda", "scale_cuda=1920:1080",
                                   "yadif_cuda=0:-1:0">>
             /\ ~HasArg(cmd, "-hwaccel")

\* the scenario preset has been compiled with both capability flags true
C2_Witness ==
    /\ pc = "built"
    /\ has_nvenc
    /\ has_cuda
    /\ preset = ScenarioPreset
    /\ lut_path = None
    /\ Len(filters) = 2

----------------------------------------------------------------------------
(* C3: in every command whose chain holds an accelerated (CUDA) filter      *)
(* stage, the frame is on the accelerator when that stage runs: the command *)
(* carries the accelerated-decode flags, or the chain begins with an Upload *)
(* stage.                                                                   *)
C3_FrameOnAcceleratorForCudaStage ==
    (Called /\ \E i \in 1..Len(filters) : filters[i].name \in CudaFilterNames)
    => \/ /\ HasArgPair(cmd, "-hwaccel", "cuda")
          /\ HasArgPair(cmd, "-hwaccel_output_format", "cuda")
       \/ filters[1].name = "hwupload_cuda"

----------------------------------------------------------------------------
(* C4: whenever accelerated filters are in use and any stage of the         *)
(* CPU-only tail (LUT, eq, unsharp, grain, letterbox, vignette) is          *)
(* requested, a single Download stage precedes the first of them.           *)
C4_DownloadBeforeCpuTail ==
    (Called /\ AccelFiltersInUse /\ \E k \in CpuTailKinds : Requested(k))
    => LET ks == Kinds(filters)
           down == Positions(filters, "Download")
       IN  /\ Cardinality(down) = 1
           /\ \A d \in down : \A j \in 1..Len(ks) : ks[j] \in CpuTailKinds => d < j

----------------------------------------------------------------------------
(* C5: the stages of the compiled chain appear in the fixed relative order  *)
(* Upload, Scale, Deinterlace, ToneMap, FrameRateConvert, Download, color   *)
(* LUT, color correction, sharpen, grain, letterbox, vignette, and no stage *)
(* kind appears more than once.                                             *)
C5_FixedStageOrder ==
    Called =>
        LET ks == Kinds(filters)
        IN  /\ \A i, j \in 1..Len(ks) : i < j => Rank(ks[i]) < Rank(ks[j])
            /\ \A i, j \in 1..Len(ks) : i # j => ks[i] # ks[j]

\* a chain that holds all twelve stage kinds
C5_Witness ==
    /\ pc = "built"
    /\ Kinds(filters) = KindOrder

----------------------------------------------------------------------------
(* C6: when accelerated filters are unavailable or disabled by the preset,  *)
(* the chain holds no Upload and no Download stage and every Scale,         *)
(* Deinterlace and ToneMap stage is the software variant; the scenario      *)
(* preset with both capability flags false compiles to exactly [software    *)
(* Scale 1920x1080, software Deinterlace].                                  *)
C6_SoftwareChainWithoutCuda ==
    (Called /\ (~has_cuda \/ ~Get(preset, "use_cuda", TRUE)))
    => /\ ~HasKind(filters, "Upload")
       /\ ~HasKind(filters, "Download")
       /\ \A i \in 1..Len(filters) : filters[i].name \notin CudaFilterNames
       /\ (~has_nvenc /\ ~has_cuda /\ preset = ScenarioPreset /\ lut_path = None)
          => Texts(filters) = <<"scale=1920:1080", "yadif=0:-1:0">>

\* the scenario preset has been compiled with both capability flags false
C6_Witness ==
    /\ pc = "built"
    /\ ~has_nvenc
    /\ ~has_cuda
    /\ preset = ScenarioPreset
    /\ lut_path = None
    /\ Len(filters) = 2

----------------------------------------------------------------------------
(* C7: a stage is in the chain only if its preset field is present (for the *)
(* LUT stage, only if lut_path is given); a preset with no optional filter  *)
(* field and no lut_path compiles to a chain that is empty or holds only    *)
(* Upload/Download; and whenever a lut_path is supplied the LUT stage is in *)
(* the chain, whatever the capability flags.                                *)
C7_StagesOnlyWhenRequested ==
    Called =>
        LET ks == Kinds(filters)
        IN  /\ \A i \in 1..Len(ks) :
                /\ ks[i] \in DOMAIN KindField => KindField[ks[i]] \in DOMAIN preset
                /\ ks[i] = "ColorLUT" => lut_path # None
            /\ ({KindField[k] : k \in DOMAIN KindField} \cap DOMAIN preset = {}
                /\ lut_path = None)
               => \A i \in 1..Len(ks) : ks[i] \in {"Upload", "Download"}
            /\ LutGiven => HasKind(filters, "ColorLUT")

\* a preset with no filter field and no lut_path compiled to a bare Upload
C7_Witness ==
    /\ pc = "built"
    /\ has_cuda
    /\ preset = ("hwaccel" :> FALSE)
    /\ lut_path = None
    /\ Names(filters) = <<"hwupload_cuda">>

----------------------------------------------------------------------------
(* C8: two calls with deeply equal arguments and the same capability flags  *)
(* return identical output, also when the two presets hold the same eq keys *)
(* and values inserted in a different order.                                *)
C8_EqualArgumentsEqualOutput ==
    (pc = "rebuilt" /\ DeepEqual(prior.preset, preset) /\ prior.lut_path = lut_path)
    => /\ cmd = prior.cmd
       /\ filters = prior.filters

----------------------------------------------------------------------------
(* C9: the encoder named after -c:v is an nvenc encoder only when           *)
(* accelerated encode is available; whenever has_nvenc is false the command *)
(* selects a software encoder, also for a preset that names an nvenc        *)
(* encoder.                                                                 *)
C9_NvencOnlyWhenAvailable ==
    Called =>
        \A i \in 1..(Len(cmd) - 1) :
            (cmd[i] = "-c:v" /\ cmd[i + 1] \in NvencNames) => has_nvenc

----------------------------------------------------------------------------
(* C10: for a preset whose audio_codec is "copy" the command holds -c:a     *)
(* copy and neither -b:a nor -ar, even when the preset sets audio_bitrate   *)
(* or audio_sample_rate; for any other audio codec -c:a, -b:a and -ar are   *)
(* all present.                                                             *)
C10_AudioCopyHasNoBitrate ==
    Called =>
        LET audio_codec == Get(preset, "audio_codec", "aac")
        IN  IF audio_codec = "copy"
            THEN /\ HasArgPair(cmd, "-c:a", "copy")
                 /\ ~HasArg(cmd, "-b:a")
                 /\ ~HasArg(cmd, "-ar")
            ELSE /\ HasArgPair(cmd, "-c:a", audio_codec)
                 /\ HasArg(cmd, "-b:a")
                 /\ HasArg(cmd, "-ar")

\* an audio copy of a preset that also sets a bitrate and a sample rate
C10_Witness ==
    /\ pc = "built"
    /\ {"audio_codec", "audio_bitrate", "audio_sample_rate"} \subseteq DOMAIN preset
    /\ preset["audio_codec"] = "copy"
    /\ HasArgPair(cmd, "-c:a", "copy")


----------------------------------------------------------------------------
(* GPUPipeline._check_gpu_support: the capability probe run by __init__     *)

\* what one subprocess.run of ffmpeg can do.  It is called without check and
\* without timeout, so it raises only when the tool cannot be started; a
\* crash (negative return code) and a non-zero exit both return normally,
\* with whatever the tool wrote to stdout before it ended.  "lists" says
\* whether that stdout holds the symbol looked for.
ToolOutcomes ==
    [kind : {"not_found"}, lists : {FALSE}]
        \cup [kind : {"crash", "nonzero", "ok"}, lists : BOOLEAN]

\* subprocess.run raises (FileNotFoundError)
Raises(o) == o.kind = "not_found"

\* the presets a pipeline is asked to build for once it is constructed
ProbePresets ==
    {EmptyDict, [hwaccel |-> FALSE], [video_codec |-> "hevc_nvenc"]}

\* __init__ has not run _check_gpu_support yet: neither attribute exists (the
\* two variables hold FALSE until probe.defined names them)
InitProbe ==
    /\ has_nvenc = FALSE
    /\ has_cuda = FALSE
    /\ preset = EmptyDict
    /\ lut_path = None
    /\ filters = <<>>
    /\ cmd = <<>>
    /\ prior = NoCall
    /\ pc = "ready"
    /\ probe = [pc |-> "start", defined |-> {}, runs |-> <<>>]
    /\ RemoteIdle

\* ffmpeg -hide_banner -encoders, and the assignment of has_nvenc
CheckEncoders ==
    /\ probe.pc = "start"
    /\ \E o \in ToolOutcomes :
          IF Raises(o)
          THEN /\ has_nvenc' = FALSE
               /\ has_cuda' = FALSE
               /\ probe' = [pc |-> "probed",
                            defined |-> {"has_nvenc", "has_cuda"},
                            runs |-> <<o>>]
          ELSE /\ has_nvenc' = o.lists
               /\ has_cuda' = has_cuda
               /\ probe' = [pc |-> "filters", defined |-> {"has_nvenc"},
                            runs |-> <<o>>]
    /\ UNCHANGED <<preset, lut_path, filters, cmd, prior, pc, remote_vars>>

\* ffmpeg -hide_banner -filters, and the assignment of has_cuda
CheckFilters ==
    /\ probe.pc = "filters"
    /\ \E o \in ToolOutcomes :
          /\ IF Raises(o)
             THEN has_nvenc' = FALSE /\ has_cuda' = FALSE
             ELSE has_nvenc' = has_nvenc /\ has_cuda' = o.lists
          /\ probe' = [pc |-> "probed",
                       defined |-> {"has_nvenc", "has_cuda"},
                       runs |-> Append(probe.runs, o)]
    /\ UNCHANGED <<preset, lut_path, filters, cmd, prior, pc, remote_vars>>

\* a call of build_gpu_command on the constructed pipeline
BuildProbed ==
    /\ probe.pc = "probed"
    /\ pc = "ready"
    /\ \E p \in ProbePresets : BuildGpuCommand(p, None)

NextProbe == CheckEncoders \/ CheckFilters \/ BuildProbed

\* construction of a GPUPipeline, then one call
SpecProbe == InitProbe /\ [][NextProbe]_vars

\* the run did not end with exit status 0
RunFailed(o) == o.kind # "ok"

\* C11: the capability probe always completes with both flags defined; when
\* either ffmpeg run fails (not found, crash or non-zero exit) both flags are
\* false, and a flag is true only if its run succeeded and listed the symbol.
\* The code never looks at the return code: a run that exits non-zero leaves
\* the flag of the other run alone and sets its own flag from its stdout.
C11_FailedRunClearsBothFlags ==
    probe.pc = "probed" =>
        /\ probe.defined = {"has_nvenc", "has_cuda"}
        /\ (\E i \in DOMAIN probe.runs : RunFailed(probe.runs[i]))
               => (~has_nvenc /\ ~has_cuda)
        /\ has_nvenc => (probe.runs[1].kind = "ok" /\ probe.runs[1].lists)
        /\ has_cuda => (/\ Len(probe.runs) = 2
                        /\ probe.runs[2].kind = "ok"
                        /\ probe.runs[2].lists)


----------------------------------------------------------------------------
(* AIDPClient of src/src/aidp_client.py: the session and wait_for_job       *)

\* the longest a status request takes, in seconds
MaxPollTime == 1
\* the largest timeout and poll_interval a direct call of wait_for_job passes
MaxTimeout == 2
MaxInterval == 2

\* the pipeline is constructed and not used
PipelineIdle ==
    /\ has_nvenc = FALSE
    /\ has_cuda = FALSE
    /\ preset = EmptyDict
    /\ lut_path = None
    /\ filters = <<>>
    /\ cmd = <<>>
    /\ prior = NoCall
    /\ pc = "ready"
    /\ probe = ProbeReturned

pipeline_vars ==
    <<has_nvenc, has_cuda, preset, lut_path, filters, cmd, prior, pc, probe>>

\* _get_session: a ClientSession is created only when the client has none
GetSession(s) ==
    IF s.current = None
    THEN [s EXCEPT !.current = "ClientSession", !.opened = @ + 1]
    ELSE s

\* close: the session, if any, is closed and forgotten
Close(s) ==
    IF s.current # None
    THEN [s EXCEPT !.current = None, !.closed = @ + 1]
    ELSE s

\* raise AIDPError(message)
AIDPError(message) == [type |-> "AIDPError", message |-> message]

\* a connection fault raised by aiohttp inside session.get / post / put
ClientError(message) == [type |-> "ClientError", message |-> message]

\* the text a remote party puts in an error body or in a job's "error"
RemoteTexts == {"out of memory", "Job timed out after 0 seconds"}

\* the file ids the network assigns to job outputs
OutputIds == {"out-1", "out-2"}

\* the job snapshots GET /v1/jobs/{job_id} answers with
NonTerminalSnapshots == {[status |-> "queued"], [status |-> "running"]}
CompletedSnapshots ==
    {[status |-> "completed", output_file_id |-> f] : f \in OutputIds}
FailedSnapshots ==
    {[status |-> "failed"]}
        \cup {[status |-> "failed", error |-> e] : e \in RemoteTexts}
Snapshots == NonTerminalSnapshots \cup CompletedSnapshots \cup FailedSnapshots

\* what one GET /v1/jobs/{job_id} does: the connection fails, the network
\* answers with a status other than 200, or it answers 200 with a snapshot
StatusResponses ==
    [kind : {"refused"}, text : {"Cannot connect to host"}]
        \cup [kind : {"http_error"}, text : RemoteTexts]
        \cup {[kind |-> "ok", json |-> j] : j \in Snapshots}

\* f"Status check failed: {await resp.text()}"
StatusCheckFailed(text) == AIDPError("Status check failed: " \o text)

\* f"Job failed: {status.get('error', 'Unknown error')}"
JobFailed_SameTextAsTimeout(status) ==
    AIDPError("Job timed out after " \o Get(status, "error", "0 seconds"))
JobFailed(status) ==
    AIDPError("Job failed: " \o Get(status, "error", "Unknown error"))

\* f"Job timed out after {timeout} seconds"
JobTimedOut(timeout) ==
    AIDPError("Job timed out after " \o Str(timeout) \o " seconds")

\* time.time() - start_time > timeout
TimedOut_Never(t, start_time, timeout) == FALSE
TimedOut(t, start_time, timeout) == t - start_time > timeout

\* if progress_callback: progress_callback(status)
Notify_NonTerminalOnly(w, status) ==
    IF w.progress_callback /\ status.status \notin {"completed", "failed"}
    THEN Append(w.callbacks, status)
    ELSE w.callbacks
Notify(w, status) ==
    IF w.progress_callback THEN Append(w.callbacks, status) ELSE w.callbacks

\* the tests of one loop iteration, in the order the code makes them
Decide_DeadlineFirst(status, expired) ==
    IF expired THEN "timeout"
    ELSE IF status.status = "completed" THEN "return"
    ELSE IF status.status = "failed" THEN "fail"
    ELSE "sleep"
Decide(status, expired) ==
    IF status.status = "completed" THEN "return"
    ELSE IF status.status = "failed" THEN "fail"
    ELSE IF expired THEN "timeout"
    ELSE "sleep"

\* wait_for_job is entered: start_time = time.time()
WaitEntered(job_id, timeout, poll_interval, progress_callback) ==
    [pc |-> "poll", job_id |-> job_id, timeout |-> timeout,
     poll_interval |-> poll_interval,
     progress_callback |-> progress_callback,
     start_time |-> now, polls |-> <<>>, callbacks |-> <<>>]

\* one iteration of the loop, from the answer r of get_job_status read at
\* time t to the sleep, the return or the raise
AfterPoll(w, r, t) ==
    IF r.kind = "refused"
    THEN [w EXCEPT !.pc = "raised"] @@ [error |-> ClientError(r.text)]
    ELSE IF r.kind = "http_error"
    THEN [w EXCEPT !.pc = "raised"] @@ [error |-> StatusCheckFailed(r.text)]
    ELSE LET status == r.json
             seen == [w EXCEPT !.polls = Append(@, status),
                               !.callbacks = Notify(w, status)]
             next == Decide(status, TimedOut(t, w.start_time, w.timeout))
         IN  CASE next = "return" ->
                    [seen EXCEPT !.pc = "returned"] @@ [result |-> status]
               [] next = "fail" ->
                    [seen EXCEPT !.pc = "raised"]
                        @@ [error |-> JobFailed(status)]
               [] next = "timeout" ->
                    [seen EXCEPT !.pc = "raised"]
                        @@ [error |-> JobTimedOut(w.timeout)]
               [] OTHER -> [seen EXCEPT !.pc = "sleep"]

\* the request get_job_status sends
StatusRequest(job_id) == [kind |-> "status", id |-> job_id]

\* one entry of `requests`
Exchange(request, response) == [request |-> request, response |-> response]

\* status = await self.get_job_status(job_id), taking one of the durations D,
\* and the rest of the iteration; at most cap polls are followed
WaitPoll(D, cap) ==
    /\ wait.pc = "poll"
    /\ Len(wait.polls) < cap
    /\ session' = GetSession(session)
    /\ \E r \in StatusResponses, d \in D :
          /\ requests' =
                Append(requests, Exchange(StatusRequest(wait.job_id), r))
          /\ now' = now + d
          /\ wait' = AfterPoll(wait, r, now + d)
    /\ UNCHANGED <<pipeline_vars, upload, submit, download, flow>>

\* await asyncio.sleep(poll_interval)
WaitSleep ==
    /\ wait.pc = "sleep"
    /\ now' = now + wait.poll_interval
    /\ wait' = [wait EXCEPT !.pc = "poll"]
    /\ UNCHANGED <<pipeline_vars, session, requests, upload, submit, download,
                   flow>>

\* a client is constructed; nothing is called yet
InitWait ==
    /\ PipelineIdle
    /\ RemoteIdle

\* await client.wait_for_job(job_id, timeout, poll_interval, callback)
CallWaitForJob ==
    /\ wait.pc = "idle"
    /\ flow.pc = "idle"
    /\ \E timeout \in 0..MaxTimeout, poll_interval \in 1..MaxInterval,
          progress_callback \in BOOLEAN :
          wait' = WaitEntered("job-1", timeout, poll_interval,
                              progress_callback)
    /\ UNCHANGED <<pipeline_vars, session, requests, now, upload, submit,
                   download, flow>>

\* the polls a call with a timeout of at most MaxTimeout can make
WaitPollCap == MaxTimeout + 2

PollJob == WaitPoll(0..MaxPollTime, WaitPollCap)

NextWait == CallWaitForJob \/ PollJob \/ WaitSleep

\* one direct call of wait_for_job
SpecWait == InitWait /\ [][NextWait]_vars

\* the event loop resumes the coroutine when the request or the sleep ends
SpecWaitFair == SpecWait /\ WF_vars(PollJob) /\ WF_vars(WaitSleep)


----------------------------------------------------------------------------
(* Vocabulary of the properties of wait_for_job                             *)

TerminalStatuses == {"completed", "failed"}

WaitRunning == wait.pc \in {"poll", "sleep"}
WaitEnded == wait.pc \in {"returned", "raised"}

\* the calls of get_job_status the wait in progress has made
StatusCalls ==
    Cardinality({i \in DOMAIN requests :
                    requests[i].request
                        = [kind |-> "status", id |-> wait.job_id]})

\* every call of get_job_status so far gave a snapshot, none of them terminal
OnlyNonTerminalSeen ==
    /\ StatusCalls = Len(wait.polls)
    /\ \A i \in DOMAIN wait.polls :
          wait.polls[i].status \notin TerminalStatuses

\* the wait ended with the error of an expired deadline
EndedTimedOut ==
    /\ wait.pc = "raised"
    /\ wait.error.type = "AIDPError"
    /\ wait.error.message
          = "Job timed out after " \o Str(wait.timeout) \o " seconds"

\* C13: a wait that never observes a terminal status ends: a call with
\* timeout 0 ends with the timed-out error, and with any finite timeout and a
\* clock that advances the loop exits after finitely many polls.
C13_WaitEndsWithoutTerminalStatus ==
    /\ []((WaitEnded /\ OnlyNonTerminalSeen) => EndedTimedOut)
    /\ (WaitRunning ~> WaitEnded)

\* a call with timeout 0 whose polls were all non-terminal has timed out
C13_Witness ==
    /\ WaitEnded
    /\ wait.timeout = 0
    /\ OnlyNonTerminalSeen
    /\ Len(wait.polls) = 2
    /\ EndedTimedOut


\* the three reasons a wait ends in an error, told from what happened
DeadlineExpired == wait.pc = "raised" /\ OnlyNonTerminalSeen
RemoteFailure ==
    /\ wait.pc = "raised"
    /\ StatusCalls = Len(wait.polls)
    /\ Len(wait.polls) > 0
    /\ wait.polls[Len(wait.polls)].status = "failed"
TransportFailure == wait.pc = "raised" /\ StatusCalls > Len(wait.polls)

FailureCause ==
    CASE TransportFailure -> "transport"
      [] RemoteFailure -> "remote_failure"
      [] OTHER -> "deadline"

\* the errors a caller can expect for each reason: the exception class and
\* its message are all an AIDPError carries
ErrorsOfCause ==
    [deadline |->
        {[type |-> "AIDPError",
          message |-> "Job timed out after " \o Str(t) \o " seconds"] :
            t \in 0..MaxTimeout},
     remote_failure |->
        {[type |-> "AIDPError", message |-> "Job failed: " \o x] :
            x \in RemoteTexts \cup {"Unknown error"}},
     transport |->
        {[type |-> "AIDPError", message |-> "Status check failed: " \o x] :
            x \in RemoteTexts}
          \cup {[type |-> "ClientError", message |-> "Cannot connect to host"]}]

\* the reasons an error value can stand for
CausesOf(error) == {c \in DOMAIN ErrorsOfCause : error \in ErrorsOfCause[c]}

\* C14: the failures of wait_for_job are distinguishable: the error raised
\* for an expired deadline, for a remote failed status and for a transport
\* failure of a poll stands for that reason and for no other (all three are
\* AIDPError; the message tells them apart), and the error of a failed status
\* carries the remote error detail unchanged.
C14_FailuresDistinguishable ==
    wait.pc = "raised" =>
        /\ CausesOf(wait.error) = {FailureCause}
        /\ (RemoteFailure /\ "error" \in DOMAIN wait.polls[Len(wait.polls)])
              => wait.error.message
                    = "Job failed: " \o wait.polls[Len(wait.polls)].error

\* a failed status whose detail reads like the message of an expired
\* deadline, reported by a call with timeout 0
C14_Witness ==
    /\ RemoteFailure
    /\ wait.timeout = 0
    /\ wait.polls[Len(wait.polls)]
          = [status |-> "failed", error |-> "Job timed out after 0 seconds"]
    /\ wait.error.message = "Job failed: Job timed out after 0 seconds"


\* the positions of the terminal snapshots among the snapshots polled
TerminalPolls ==
    {i \in DOMAIN wait.polls : wait.polls[i].status \in TerminalStatuses}

\* C20: a terminal snapshot is authoritative and final: at the first poll
\* that returns completed or failed the wait ends with that outcome, whatever
\* the earlier snapshots were and whether or not the deadline has passed at
\* that poll, and no poll of the job follows a terminal snapshot (a failed
\* status is not retried).
C20_TerminalSnapshotEndsWait ==
    (wait.pc # "idle") =>
        \A i \in TerminalPolls :
            /\ i = Len(wait.polls)
            /\ StatusCalls = i
            /\ wait.polls[i].status = "completed"
                  => (wait.pc = "returned" /\ wait.result = wait.polls[i])
            /\ wait.polls[i].status = "failed"
                  => (/\ wait.pc = "raised"
                      /\ wait.error.type = "AIDPError"
                      /\ wait.error.message
                            = "Job failed: "
                                \o Get(wait.polls[i], "error", "Unknown error"))

\* completed is returned at a poll made after the deadline, after snapshots
\* that went from running back to queued
C20_Witness ==
    /\ wait.pc = "returned"
    /\ now - wait.start_time > wait.timeout
    /\ Len(wait.polls) = 3
    /\ wait.polls[1].status = "running"
    /\ wait.polls[2].status = "queued"
    /\ wait.result = wait.polls[3]


----------------------------------------------------------------------------
(* AIDPClient.upload_file, submit_job and download_file                     *)

\* the local files handed to the client: their bytes and their size
FileData ==
    ("a.mp4" :> "frames-a") @@ ("b.mp4" :> "frames-b")
        @@ ("test.cube" :> "lut-table")
FileSize == ("a.mp4" :> 2048) @@ ("b.mp4" :> 4096) @@ ("test.cube" :> 512)

\* _hash_file: the SHA-256 digest of the bytes of the file
HashFile(file_path) == "sha256(" \o FileData[file_path] \o ")"

\* the status codes the network answers with
HttpStatuses == {200, 201, 500}

\* the staging requests sent so far
StagingCount ==
    Cardinality({i \in DOMAIN requests :
                    requests[i].request.kind = "upload_request"})

\* the body of a 200 answer to POST /v1/storage/upload: the network numbers
\* the files it stages
UploadInfos ==
    LET f == "file-" \o Str(StagingCount + 1)
    IN  {[file_id |-> f, upload_url |-> "https://put/" \o f,
          storage_url |-> "aidp://" \o f]}

\* what a request can do: the connection fails, or the network answers with
\* a status code and, for 200, one of the bodies
Responses(bodies) ==
    {[kind |-> "refused", text |-> "Cannot connect to host"]}
        \cup {[kind |-> "http", status |-> c, text |-> "server error"] :
                 c \in HttpStatuses \ {200}}
        \cup {[kind |-> "http", status |-> 200, json |-> b] : b \in bodies}

\* upload_file is entered: the hash is computed before anything is sent
UploadEntered(file_path) ==
    [pc |-> "post", file_path |-> file_path,
     file_hash |-> HashFile(file_path)]

\* the staging request: POST /v1/storage/upload
StagingRequest(u) ==
    [kind |-> "upload_request", filename |-> u.file_path,
     size |-> FileSize[u.file_path], hash |-> u.file_hash, type |-> "video"]

\* the byte transfer: PUT upload_info["upload_url"]
PutRequest(u) ==
    [kind |-> "upload_put", url |-> u.upload_info.upload_url,
     data |-> FileData[u.file_path]]

\* resp.status not in (200, 201) raises
PutAccepted_Any(status) == TRUE
PutAccepted(status) == status \in {200, 201}

\* the dict upload_file returns
UploadedFile(u) ==
    [file_id |-> u.upload_info.file_id,
     storage_url |-> u.upload_info.storage_url, hash |-> u.file_hash]

\* session = await self._get_session() ... async with session.post(...)
UploadPost ==
    /\ upload.pc = "post"
    /\ session' = GetSession(session)
    /\ \E r \in Responses(UploadInfos) :
        /\ requests' = Append(requests, Exchange(StagingRequest(upload), r))
        /\ upload' =
              IF r.kind = "refused"
              THEN [upload EXCEPT !.pc = "raised"]
                       @@ [error |-> ClientError(r.text)]
              ELSE IF r.status # 200
              THEN [upload EXCEPT !.pc = "raised"]
                       @@ [error |->
                              AIDPError("Upload request failed: " \o r.text)]
              ELSE [upload EXCEPT !.pc = "put"] @@ [upload_info |-> r.json]
    /\ UNCHANGED <<pipeline_vars, now, submit, download, wait, flow>>

\* async with session.put(...), and the return
UploadPut ==
    /\ upload.pc = "put"
    /\ \E r \in Responses({"stored"}) :
        /\ requests' = Append(requests, Exchange(PutRequest(upload), r))
        /\ upload' =
              IF r.kind = "refused"
              THEN [upload EXCEPT !.pc = "raised"]
                       @@ [error |-> ClientError(r.text)]
              ELSE IF ~PutAccepted(r.status)
              THEN [upload EXCEPT !.pc = "raised"]
                       @@ [error |->
                              AIDPError("File upload failed: "
                                            \o Str(r.status))]
              ELSE [upload EXCEPT !.pc = "returned"]
                       @@ [result |-> UploadedFile(upload)]
    /\ UNCHANGED <<pipeline_vars, session, now, submit, download, wait, flow>>

\* `if lut_path:`, `if gpu_node:` on an Optional[str]
StrGiven(value) == value # None /\ value # ""

\* the body of POST /v1/jobs/submit
JobConfig_NoLut(sub) ==
    [type |-> "video_processing", input_file_id |-> sub.input_file_id,
     preset |-> sub.preset, lut_file_id |-> None, priority |-> "normal",
     gpu_requirements |->
        [min_vram_gb |-> Get(sub.preset, "min_vram_gb", 8),
         preferred_gpu |-> Get(sub.preset, "preferred_gpu", "any"),
         cuda_compute |-> Get(sub.preset, "cuda_compute", "7.0")]]
        @@ (IF StrGiven(sub.gpu_node) THEN [target_node |-> sub.gpu_node]
            ELSE EmptyDict)
JobConfig(sub) ==
    [type |-> "video_processing", input_file_id |-> sub.input_file_id,
     preset |-> sub.preset, lut_file_id |-> sub.lut_file_id,
     priority |-> "normal",
     gpu_requirements |->
        [min_vram_gb |-> Get(sub.preset, "min_vram_gb", 8),
         preferred_gpu |-> Get(sub.preset, "preferred_gpu", "any"),
         cuda_compute |-> Get(sub.preset, "cuda_compute", "7.0")]]
        @@ (IF StrGiven(sub.gpu_node) THEN [target_node |-> sub.gpu_node]
            ELSE EmptyDict)

SubmitRequest(sub) == [kind |-> "submit", json |-> JobConfig(sub)]

\* the job-submission requests sent so far
SubmitCount ==
    Cardinality({i \in DOMAIN requests : requests[i].request.kind = "submit"})

\* the body of a 200 answer to POST /v1/jobs/submit: the network numbers the
\* jobs it accepts
JobAccepted ==
    {[job_id |-> "job-" \o Str(SubmitCount + 1), assigned_node |-> "node-1",
      estimated_time_seconds |-> 30]}

\* submit_job is entered: the session is fetched, and a LUT, if one is given,
\* is uploaded first
EnterSubmit(input_file_id, p, lut, gpu_node) ==
    /\ session' = GetSession(session)
    /\ submit' = [pc |-> IF StrGiven(lut) THEN "lut" ELSE "post",
                  input_file_id |-> input_file_id, preset |-> p,
                  lut_path |-> lut, gpu_node |-> gpu_node,
                  lut_file_id |-> None]
    /\ upload' = IF StrGiven(lut) THEN UploadEntered(lut) ELSE upload

\* lut_upload = await self.upload_file(lut_path) has ended
SubmitAfterLut ==
    /\ submit.pc = "lut"
    /\ upload.pc \in {"returned", "raised"}
    /\ submit' =
          IF upload.pc = "returned"
          THEN [submit EXCEPT !.pc = "post",
                              !.lut_file_id = upload.result.file_id]
          ELSE [submit EXCEPT !.pc = "raised"] @@ [error |-> upload.error]
    /\ UNCHANGED <<pipeline_vars, session, requests, now, upload, download,
                   wait, flow>>

\* async with session.post(/v1/jobs/submit), and the return
SubmitPost ==
    /\ submit.pc = "post"
    /\ \E r \in Responses(JobAccepted) :
        /\ requests' = Append(requests, Exchange(SubmitRequest(submit), r))
        /\ submit' =
              IF r.kind = "refused"
              THEN [submit EXCEPT !.pc = "raised"]
                       @@ [error |-> ClientError(r.text)]
              ELSE IF r.status # 200
              THEN [submit EXCEPT !.pc = "raised"]
                       @@ [error |->
                              AIDPError("Job submission failed: " \o r.text)]
              ELSE [submit EXCEPT !.pc = "returned"]
                       @@ [result |->
                              [job_id |-> r.json.job_id,
                               node_id |-> r.json.assigned_node,
                               estimated_time |->
                                  Get(r.json, "estimated_time_seconds", None),
                               cost_estimate |->
                                  Get(r.json, "cost_estimate_usd", None)]]
    /\ UNCHANGED <<pipeline_vars, session, now, upload, download, wait, flow>>

\* a client is constructed; nothing is called yet
InitStage ==
    /\ PipelineIdle
    /\ RemoteIdle

\* await client.upload_file(file_path)
CallUploadFile ==
    /\ upload.pc = "idle"
    /\ submit.pc = "idle"
    /\ \E file_path \in {"a.mp4", "b.mp4"} :
          upload' = UploadEntered(file_path)
    /\ UNCHANGED <<pipeline_vars, session, requests, now, submit, download,
                   wait, flow>>

\* await client.submit_job(input_file_id, preset, lut_path, gpu_node)
CallSubmitJob ==
    /\ upload.pc = "idle"
    /\ submit.pc = "idle"
    /\ \E input_file_id \in {"file-7", "file-8"}, lut \in LutPaths,
          p \in {EmptyDict, [min_vram_gb |-> 16]},
          gpu_node \in {None, "node-7"} :
          EnterSubmit(input_file_id, p, lut, gpu_node)
    /\ UNCHANGED <<pipeline_vars, requests, now, download, wait, flow>>

NextStage ==
    CallUploadFile \/ CallSubmitJob \/ UploadPost \/ UploadPut
        \/ SubmitAfterLut \/ SubmitPost

\* one direct call of upload_file or of submit_job
SpecStage == InitStage /\ [][NextStage]_vars


----------------------------------------------------------------------------
(* Vocabulary of the properties of upload_file and submit_job               *)

\* the positions in `requests` of the requests of one kind
Sent(kind) == {i \in DOMAIN requests : requests[i].request.kind = kind}

\* the answer is a success for the step it answers
StagingSucceeded(r) == r.kind = "http" /\ r.status = 200
TransferSucceeded(r) == r.kind = "http" /\ r.status \in {200, 201}
CallSucceeded(x) ==
    IF x.request.kind = "upload_put" THEN TransferSucceeded(x.response)
    ELSE StagingSucceeded(x.response)

\* C17: upload_file follows the staging protocol in order and stops at the
\* first failure: the staging request, with the file name, the size and the
\* locally computed hash, is sent before any byte transfer; the PUT is made
\* only after a success answer to the staging request, to the URL it gave;
\* each step is made at most once per call; a non-success at either step
\* raises and returns no UploadedFile; on success the file id returned is the
\* one the network assigned and the hash returned is the hash advertised.
C17_StagingProtocolInOrder ==
    (upload.pc # "idle") =>
        /\ Cardinality(Sent("upload_request")) <= 1
        /\ Cardinality(Sent("upload_put")) <= 1
        /\ \A i \in Sent("upload_request") :
              requests[i].request
                  = [kind |-> "upload_request",
                     filename |-> upload.file_path,
                     size |-> FileSize[upload.file_path],
                     hash |-> "sha256(" \o FileData[upload.file_path] \o ")",
                     type |-> "video"]
        /\ \A j \in Sent("upload_put") :
              \E i \in Sent("upload_request") :
                  /\ i < j
                  /\ StagingSucceeded(requests[i].response)
                  /\ requests[j].request.url
                        = requests[i].response.json.upload_url
        /\ \A i \in Sent("upload_request") \cup Sent("upload_put") :
              ~CallSucceeded(requests[i])
                  => (upload.pc = "raised" /\ i = Len(requests))
        /\ upload.pc = "returned" =>
              \E i \in Sent("upload_request"), j \in Sent("upload_put") :
                  /\ TransferSucceeded(requests[j].response)
                  /\ upload.result.file_id = requests[i].response.json.file_id
                  /\ upload.result.hash = requests[i].request.hash

\* an upload whose transfer was answered 201 returns the file id assigned
C17_Witness ==
    /\ upload.pc = "returned"
    /\ submit.pc = "idle"
    /\ Len(requests) = 2
    /\ requests[2].response.status = 201
    /\ upload.result.file_id = "file-1"
    /\ upload.result.hash = "sha256(frames-b)"


\* submit_job was called with a LUT path (a non-empty one)
SubmitLutGiven == submit.lut_path \notin {None, ""}

\* the LUT upload of the call in progress has failed at one of its two steps
LutUploadFailed ==
    \E i \in Sent("upload_request") \cup Sent("upload_put") :
        ~CallSucceeded(requests[i])

\* C18: submit_job stages the LUT before the job request and aborts when
\* that fails: with a lut_path the LUT upload completes before the single
\* job-submission request, which carries the file id assigned to the LUT; if
\* the LUT upload fails the job-submission request is never sent and
\* submit_job raises; a call sends at most one job-submission request.
C18_LutStagedBeforeJobRequest ==
    (submit.pc # "idle") =>
        /\ Cardinality(Sent("submit")) <= 1
        /\ SubmitLutGiven =>
              /\ \A j \in Sent("submit") :
                    \E i \in Sent("upload_request"), k \in Sent("upload_put") :
                        /\ i < k /\ k < j
                        /\ requests[i].request.filename = submit.lut_path
                        /\ StagingSucceeded(requests[i].response)
                        /\ TransferSucceeded(requests[k].response)
                        /\ requests[j].request.json.lut_file_id
                              = requests[i].response.json.file_id
              /\ LutUploadFailed =>
                    /\ Sent("submit") = {}
                    /\ submit.pc \in {"lut", "raised"}
                    /\ upload.pc = "raised"
              /\ (LutUploadFailed /\ submit.pc = "raised") =>
                    submit.error = upload.error

\* a job submitted with a LUT carries the file id the network gave the LUT
C18_Witness ==
    /\ submit.pc = "returned"
    /\ SubmitLutGiven
    /\ Len(requests) = 3
    /\ requests[1].response.json.file_id = "file-1"
    /\ requests[3].request.json.input_file_id = "file-8"
    /\ requests[3].request.json.lut_file_id = "file-1"
    /\ submit.result.job_id = "job-1"


----------------------------------------------------------------------------
(* download_file, process_video_on_aidp and the commands of src/src/forge.py *)

\* the polls of one job a command is followed through
MaxPolls == 2

\* wait_for_job's defaults: timeout: int = 3600, poll_interval: int = 2
DefaultTimeout == 3600
DefaultPollInterval == 2

\* a status request of a command returns within the second, or only after
\* the deadline of the wait has passed
FlowPollTimes == {1, DefaultTimeout + 1}

\* PRESETS["default"]
DefaultPreset ==
    [description |-> "Standard web-optimized output with GPU encoding",
     encoder |-> "h264_nvenc", speed |-> "medium", cq |-> 23,
     rate_control |-> "vbr", audio_codec |-> "aac",
     audio_bitrate |-> "128k", faststart |-> TRUE, min_vram_gb |-> 4]

\* str(input_path.stem) + "_processed.mp4"
ProcessedName == ("a.mp4" :> "a_processed.mp4") @@ ("b.mp4" :> "b_processed.mp4")

\* the video files a batch finds in its input directory
BatchDirs == {<<"a.mp4">>, <<"a.mp4", "b.mp4">>}

\* the body of a 200 answer to GET /v1/storage/download/{file_id}
DownloadInfos(file_id) == {[download_url |-> "https://get/" \o file_id]}

\* download_file is entered
DownloadEntered_FirstOutputId(file_id, output) ==
    [pc |-> "request", file_id |-> "out-1", output_path |-> output]
DownloadEntered(file_id, output) ==
    [pc |-> "request", file_id |-> file_id, output_path |-> output]

\* async with session.get(/v1/storage/download/{file_id})
DownloadRequest ==
    /\ download.pc = "request"
    /\ session' = GetSession(session)
    /\ \E r \in Responses(DownloadInfos(download.file_id)) :
        /\ requests' =
              Append(requests,
                     Exchange([kind |-> "download_request",
                               id |-> download.file_id], r))
        /\ download' =
              IF r.kind = "refused"
              THEN [download EXCEPT !.pc = "raised"]
                       @@ [error |-> ClientError(r.text)]
              ELSE IF r.status # 200
              THEN [download EXCEPT !.pc = "raised"]
                       @@ [error |->
                              AIDPError("Download request failed: "
                                            \o r.text)]
              ELSE [download EXCEPT !.pc = "get"]
                       @@ [download_info |-> r.json]
    /\ UNCHANGED <<pipeline_vars, now, upload, submit, wait, flow>>

\* async with session.get(download_info["download_url"]), the write of the
\* chunks and the return
DownloadGet ==
    /\ download.pc = "get"
    /\ \E r \in Responses({"bytes"}) :
        /\ requests' =
              Append(requests,
                     Exchange([kind |-> "download_get",
                               url |-> download.download_info.download_url],
                              r))
        /\ download' =
              IF r.kind = "refused"
              THEN [download EXCEPT !.pc = "raised"]
                       @@ [error |-> ClientError(r.text)]
              ELSE IF r.status # 200
              THEN [download EXCEPT !.pc = "raised"]
                       @@ [error |->
                              AIDPError("File download failed: "
                                            \o Str(r.status))]
              ELSE [download EXCEPT !.pc = "returned"]
                       @@ [result |-> download.output_path]
    /\ UNCHANGED <<pipeline_vars, session, now, upload, submit, wait, flow>>

\* a command starts its first upload with a fresh AIDPClient
FlowEntered(kind, videos, lut) ==
    [kind |-> kind, pc |-> "upload", videos |-> videos, lut |-> lut, k |-> 1,
     jobs |-> <<>>, completed |-> 0, printed |-> <<>>]

\* process_video_on_aidp(input_path, output_path, preset, lut_path)
ProcessVideoOnAidp ==
    /\ flow.pc = "idle"
    /\ \E lut \in {None, "test.cube"} :
          flow' = FlowEntered("on_aidp", <<"a.mp4">>, lut)
    /\ upload' = UploadEntered("a.mp4")
    /\ UNCHANGED <<pipeline_vars, session, requests, now, submit, download,
                   wait>>

\* forge process: process_video(args) without --local
ProcessVideo ==
    /\ flow.pc = "idle"
    /\ \E exists \in BOOLEAN, lut \in {None, "test.cube"} :
          IF exists
          THEN /\ flow' = FlowEntered("process", <<"a.mp4">>, lut)
               /\ upload' = UploadEntered("a.mp4")
          ELSE /\ flow' = [kind |-> "process", pc |-> "done", exit |-> 1,
                           printed |-> <<"Error: Input file not found">>]
               /\ upload' = upload
    /\ UNCHANGED <<pipeline_vars, session, requests, now, submit, download,
                   wait>>

\* forge batch: batch_process(args), up to the first upload
BatchProcess ==
    /\ flow.pc = "idle"
    /\ \E videos \in BatchDirs \cup {<<>>}, lut \in {None, "test.cube"} :
          IF videos # <<>>
          THEN /\ flow' = FlowEntered("batch", videos, lut)
               /\ upload' = UploadEntered(videos[1])
          ELSE /\ flow' = [kind |-> "batch", pc |-> "done", exit |-> 1,
                           printed |-> <<"No video files found">>]
               /\ upload' = upload
    /\ UNCHANGED <<pipeline_vars, session, requests, now, submit, download,
                   wait>>

\* an exception leaves the command: process_video_on_aidp goes through its
\* finally clause; the forge commands catch nothing, so asyncio.run re-raises
\* and the interpreter exits with status 1
Abort(error) ==
    flow' = IF flow.kind = "on_aidp"
            THEN [flow EXCEPT !.pc = "finally"] @@ [error |-> error]
            ELSE [flow EXCEPT !.pc = "crashed"]
                     @@ [error |-> error, exit |-> 1]

\* upload_result = await client.upload_file(...) has ended
AfterUpload ==
    /\ flow.pc = "upload"
    /\ upload.pc \in {"returned", "raised"}
    /\ IF upload.pc = "returned"
       THEN /\ EnterSubmit(upload.result.file_id, DefaultPreset, flow.lut,
                           None)
            /\ flow' = [flow EXCEPT !.pc = "submit"]
       ELSE /\ Abort(upload.error)
            /\ UNCHANGED <<session, upload, submit>>
    /\ UNCHANGED <<pipeline_vars, requests, now, download, wait>>

\* job = await client.submit_job(...) has ended: a batch goes on to its next
\* video, and after the last one to the wait for its first job
AfterSubmit ==
    /\ flow.pc = "submit"
    /\ submit.pc \in {"returned", "raised"}
    /\ IF submit.pc = "returned"
       THEN LET video == flow.videos[flow.k]
                jobs == Append(flow.jobs,
                               [job_id |-> submit.result.job_id,
                                input |-> video,
                                output |-> ProcessedName[video]])
            IN  IF flow.k < Len(flow.videos)
                THEN /\ flow' = [flow EXCEPT !.pc = "upload", !.k = @ + 1,
                                             !.jobs = jobs]
                     /\ upload' = UploadEntered(flow.videos[flow.k + 1])
                     /\ wait' = wait
                ELSE /\ flow' = [flow EXCEPT !.pc = "wait", !.k = 1,
                                             !.jobs = jobs]
                     /\ upload' = upload
                     /\ wait' = WaitEntered(jobs[1].job_id, DefaultTimeout,
                                            DefaultPollInterval,
                                            flow.kind = "process")
       ELSE /\ Abort(submit.error)
            /\ UNCHANGED <<upload, wait>>
    /\ UNCHANGED <<pipeline_vars, session, requests, now, submit, download>>

\* result = await client.wait_for_job(...) has ended
AfterWait ==
    /\ flow.pc = "wait"
    /\ wait.pc \in {"returned", "raised"}
    /\ IF wait.pc = "returned"
       THEN /\ download' = DownloadEntered(wait.result.output_file_id,
                                           flow.jobs[flow.k].output)
            /\ flow' = [flow EXCEPT !.pc = "download"]
       ELSE /\ Abort(wait.error)
            /\ download' = download
    /\ UNCHANGED <<pipeline_vars, session, requests, now, upload, submit,
                   wait>>

\* await client.download_file(...) has ended: a batch goes on to the wait for
\* its next job; the last download ends the command
AfterDownload ==
    /\ flow.pc = "download"
    /\ download.pc \in {"returned", "raised"}
    /\ IF download.pc = "raised"
       THEN Abort(download.error) /\ wait' = wait
       ELSE IF flow.k < Len(flow.jobs)
       THEN /\ flow' = [flow EXCEPT !.pc = "wait", !.k = @ + 1,
                                    !.completed = @ + 1]
            /\ wait' = WaitEntered(flow.jobs[flow.k + 1].job_id,
                                   DefaultTimeout, DefaultPollInterval, FALSE)
       ELSE /\ wait' = wait
            /\ flow' =
                 CASE flow.kind = "on_aidp" ->
                        [flow EXCEPT !.pc = "finally"]
                            @@ [result |->
                                   [success |-> TRUE,
                                    output_path |-> download.result,
                                    job_id |-> flow.jobs[1].job_id,
                                    metrics |->
                                       Get(wait.result, "metrics",
                                           EmptyDict)]]
                   [] flow.kind = "process" ->
                        [flow EXCEPT !.pc = "done",
                                     !.printed =
                                        Append(@, "Processing complete!")]
                            @@ [exit |-> 0]
                   [] OTHER ->
                        [flow EXCEPT !.pc = "done", !.completed = @ + 1,
                                     !.printed =
                                        Append(@, "Batch processing complete!")]
                            @@ [exit |-> 0]
    /\ UNCHANGED <<pipeline_vars, session, requests, now, upload, submit,
                   download>>

\* finally: await client.close()
Finally ==
    /\ flow.pc = "finally"
    /\ session' = Close(session)
    /\ flow' = [flow EXCEPT
                   !.pc = IF "error" \in DOMAIN flow THEN "raised"
                          ELSE "returned"]
    /\ UNCHANGED <<pipeline_vars, requests, now, upload, submit, download,
                   wait>>

\* forge status: check_status(args)
CheckStatus ==
    /\ flow.pc = "idle"
    /\ session' = GetSession(session)
    /\ \E r \in StatusResponses :
        /\ requests' = Append(requests, Exchange(StatusRequest("job-1"), r))
        /\ flow' =
              IF r.kind = "refused"
              THEN [kind |-> "status", pc |-> "crashed",
                    error |-> ClientError(r.text), exit |-> 1]
              ELSE IF r.kind = "http_error"
              THEN [kind |-> "status", pc |-> "crashed",
                    error |-> StatusCheckFailed(r.text), exit |-> 1]
              ELSE [kind |-> "status", pc |-> "done", exit |-> 0,
                    printed |-> <<"Job Status: job-1">>]
    /\ UNCHANGED <<pipeline_vars, now, upload, submit, download, wait>>

\* what the encoder started by process_local does: it cannot be started, or
\* it ends with a return code and its diagnostics on stderr
EncoderRuns ==
    {[kind |-> "not_found"]}
        \cup {[kind |-> "exited", returncode |-> 0, stderr |-> ""]}
        \cup {[kind |-> "exited", returncode |-> c, stderr |-> e] :
                 c \in {1, 187}, e \in {"", "input.mp4: Invalid data"}}

\* the dict process_local returns
ProcessLocalResult(run, command) ==
    IF run.returncode # 0
    THEN [success |-> FALSE, error |-> run.stderr,
          command |-> Join(" ", command)]
    ELSE [success |-> TRUE, output_path |-> output_path,
          metrics |-> [gpu_accelerated |-> has_nvenc]]

\* the end of process_video after either branch: the completion message,
\* the metrics when the result has them, return 0
ProcessVideoReport(result) ==
    <<"Processing complete!">>
        \o (IF "metrics" \in DOMAIN result THEN <<"Performance Metrics:">>
            ELSE <<>>)

\* forge process --local: process_video(args) with args.local
ProcessVideoLocal ==
    /\ flow.pc = "idle"
    /\ pc = "ready"
    /\ \E exists \in BOOLEAN, lut \in {None, "test.cube"},
          run \in EncoderRuns :
          IF ~exists
          THEN /\ flow' = [kind |-> "local", pc |-> "done", exit |-> 1,
                           printed |-> <<"Error: Input file not found">>]
               /\ UNCHANGED <<preset, lut_path, filters, cmd, pc>>
          ELSE /\ preset' = DefaultPreset
               /\ lut_path' = lut
               /\ filters' = FilterList(DefaultPreset, lut)
               /\ cmd' = build_gpu_command(DefaultPreset, lut)
               /\ pc' = "built"
               /\ flow' =
                    IF run.kind = "not_found"
                    THEN [kind |-> "local", pc |-> "crashed", exit |-> 1,
                          error |-> [type |-> "FileNotFoundError",
                                     message |-> ffmpeg_path]]
                    ELSE LET result ==
                                 ProcessLocalResult(
                                     run, build_gpu_command(DefaultPreset, lut))
                         IN  [kind |-> "local", pc |-> "done",
                              result |-> result, exit |-> 0,
                              printed |-> ProcessVideoReport(result)]
    /\ UNCHANGED <<has_nvenc, has_cuda, prior, probe, session, requests, now,
                   upload, submit, download, wait>>

\* no command has started; this machine's ffmpeg has no NVENC and no CUDA
InitFlow ==
    /\ PipelineIdle
    /\ RemoteIdle

\* a status request of the job a command waits for
PollFlowJob == WaitPoll(FlowPollTimes, MaxPolls)

NextFlow ==
    ProcessVideoOnAidp \/ ProcessVideo \/ ProcessVideoLocal \/ BatchProcess
        \/ CheckStatus \/ UploadPost \/ UploadPut \/ SubmitAfterLut
        \/ SubmitPost \/ PollFlowJob \/ WaitSleep \/ DownloadRequest
        \/ DownloadGet \/ AfterUpload \/ AfterSubmit \/ AfterWait
        \/ AfterDownload \/ Finally

\* one run of process_video_on_aidp or of a forge command
SpecFlow == InitFlow /\ [][NextFlow]_vars


----------------------------------------------------------------------------
(* Vocabulary of the properties of the commands                             *)

\* the command has ended: it returned, or an exception left it
FlowEnded == flow.pc \in {"done", "crashed", "returned", "raised"}

\* the wait in progress got completed as the answer of its latest poll
CompletedAtLastPoll ==
    /\ wait.pc # "idle"
    /\ Len(wait.polls) > 0
    /\ wait.polls[Len(wait.polls)].status = "completed"
    /\ \A i \in 1..(Len(wait.polls) - 1) :
          wait.polls[i].status \notin TerminalStatuses

\* the position in `requests` of the latest status request
LastStatusCall ==
    CHOOSE i \in Sent("status") : \A j \in Sent("status") : j <= i

\* C12: wait_for_job polls until the first terminal snapshot and stops: when
\* the first k-1 polls are non-terminal and the k-th is completed, the call
\* returns that k-th snapshot after exactly k calls of get_job_status, the
\* progress callback has been called k times, once per snapshot in poll
\* order, the terminal one included, and the download that follows asks for
\* the output_file_id of that snapshot.
C12_ReturnsFirstCompletedSnapshot ==
    CompletedAtLastPoll =>
        LET k == Len(wait.polls)
        IN  /\ wait.pc = "returned"
            /\ wait.result = wait.polls[k]
            /\ StatusCalls = k
            /\ wait.progress_callback => wait.callbacks = wait.polls
            /\ flow.pc = "download" =>
                  /\ download.file_id = wait.polls[k].output_file_id
                  /\ \A i \in Sent("download_request") :
                        i > LastStatusCall =>
                            requests[i].request.id
                                = wait.polls[k].output_file_id

\* forge process: running, then completed with the second output id; the
\* callback saw both snapshots and the download asked for that id
C12_Witness ==
    /\ flow.kind = "process"
    /\ flow.pc = "download"
    /\ download.pc = "returned"
    /\ CompletedAtLastPoll
    /\ Len(wait.polls) = 2
    /\ wait.polls[1].status = "running"
    /\ wait.polls[2].output_file_id = "out-2"
    /\ Len(wait.callbacks) = 2
    /\ \E i \in Sent("download_request") : requests[i].request.id = "out-2"

\* the job has been polled at least once
WaitedFor(job) ==
    \E i \in Sent("status") : requests[i].request.id = job.job_id

\* C15: in batch mode the failure of one job (failed status, timeout or
\* download error) does not abort the jobs already submitted: every other
\* submitted job is still waited for.
\* batch_process catches nothing: the first failure ends the command.
C15_BatchWaitsForEverySubmittedJob ==
    (flow.kind = "batch" /\ FlowEnded /\ "jobs" \in DOMAIN flow
        /\ Len(flow.jobs) = Len(flow.videos))
        => \A n \in DOMAIN flow.jobs : WaitedFor(flow.jobs[n])

\* C16: the session is created on the first network call and released on
\* every exit path: when a workflow that created an AIDPClient ends, by a
\* return or by an error, the session of the client has been closed, and a
\* client never has two sessions open.
\* Only process_video_on_aidp closes its client; the process, batch and
\* status commands never call close.
C16_SessionClosedWhenWorkflowEnds ==
    /\ session.opened - session.closed <= 1
    /\ (Len(requests) = 0 => session.opened = 0)
    /\ FlowEnded => (session.current = None /\ session.opened = session.closed)

\* C19: in local mode a non-zero exit of the encoder is a failure: the
\* result of process_local has success False and the captured stderr, and the
\* process command does not report completion and does not exit with 0.
\* process_video never reads result["success"].
C19_LocalEncoderFailureIsFailure ==
    (flow.kind = "local" /\ FlowEnded /\ "result" \in DOMAIN flow
        /\ ~flow.result.success)
        => /\ "error" \in DOMAIN flow.result
           /\ flow.exit # 0
           /\ \A i \in DOMAIN flow.printed :
                 flow.printed[i] # "Processing complete!"


\* the command is one of the remote workflows
RemoteWorkflow == flow.kind \in {"on_aidp", "process", "batch"}

\* the answer is a 200 that carries a snapshot with this status
Answered(x, status) == x.response.kind = "ok" /\ x.response.json.status = status

\* the positions of the status requests sent before position d
PollsBefore(d) == {i \in Sent("status") : i < d}

\* the latest of a non-empty set of positions
Latest(positions) == CHOOSE i \in positions : \A j \in positions : j <= i

\* C21: in every remote workflow the operations of a job occur in the order
\* upload input, submit, poll, download: a job is submitted with the file id
\* of an input upload that completed before; a job is polled only after its
\* submit request was answered with its job id; download_file is called only
\* after a poll of that job returned completed, with the output_file_id of
\* that snapshot, and never while the last status observed is queued,
\* running or failed, nor after a timeout or a failed poll.
C21_UploadSubmitPollDownload ==
    RemoteWorkflow =>
        /\ \A s \in Sent("submit") :
              \E u \in Sent("upload_request"), t \in Sent("upload_put") :
                  /\ u < t /\ t < s
                  /\ StagingSucceeded(requests[u].response)
                  /\ TransferSucceeded(requests[t].response)
                  /\ requests[t].request.url
                        = requests[u].response.json.upload_url
                  /\ requests[u].request.filename \in DOMAIN ProcessedName
                  /\ requests[s].request.json.input_file_id
                        = requests[u].response.json.file_id
        /\ \A i \in Sent("status") :
              \E s \in Sent("submit") :
                  /\ s < i
                  /\ StagingSucceeded(requests[s].response)
                  /\ requests[s].response.json.job_id = requests[i].request.id
        /\ \A d \in Sent("download_request") :
              /\ PollsBefore(d) # {}
              /\ LET i == Latest(PollsBefore(d))
                 IN  /\ Answered(requests[i], "completed")
                     /\ requests[d].request.id
                           = requests[i].response.json.output_file_id
                     /\ \A e \in Sent("download_request") : e < d => e < i
        /\ flow.pc = "download" =>
              /\ wait.pc = "returned"
              /\ wait.job_id = flow.jobs[flow.k].job_id
              /\ download.file_id = wait.result.output_file_id
              /\ download.output_path = flow.jobs[flow.k].output

\* a batch of two videos with a LUT ran to its end: the second job was
\* queued, then completed with the second output id, and both were downloaded
C21_Witness ==
    /\ flow.kind = "batch"
    /\ flow.pc = "done"
    /\ flow.exit = 0
    /\ StrGiven(flow.lut)
    /\ Len(flow.jobs) = 2
    /\ Cardinality(Sent("download_get")) = 2
    /\ \E i \in Sent("status") :
          /\ requests[i].request.id = "job-2"
          /\ Answered(requests[i], "queued")
    /\ \E d \in Sent("download_request") :
          /\ requests[d].request.id = "out-2"
          /\ d > Latest(Sent("status"))

====
